---- MODULE Spec2Model ----
(***************************************************************************)
(* Model of the Taker configuration loader, src/taker/config.rs:           *)
(* TakerConfig::default, TakerConfig::new and create_default_taker_dirs,   *)
(* together with the collaborators of crate::utill they call (parse_toml,  *)
(* parse_field, write_default_config, get_config_dir).                     *)
(***************************************************************************)
EXTENDS Integers, Sequences, FiniteSets, TLC

(***************************************************************************)
(* Bounds of the model.                                                    *)
(***************************************************************************)
\* Number of processes that may call TakerConfig::new.
NumProcs == 2

Procs == 1..NumProcs

(***************************************************************************)
(* The data model: struct TakerConfig and its Default impl.                *)
(***************************************************************************)
\* The ten fields of struct TakerConfig, in declaration order.
Fields ==
    << "refund_locktime", "refund_locktime_step", "first_connect_attempts",
       "first_connect_sleep_delay_sec", "first_connect_attempt_timeout_sec",
       "reconnect_attempts", "reconnect_short_sleep_delay",
       "reconnect_long_sleep_delay", "short_long_sleep_delay_transition",
       "reconnect_attempt_timeout_sec" >>

FieldNames == { Fields[i] : i \in 1..Len(Fields) }

\* The numeric type of every field of struct TakerConfig.
FieldType ==
    [ refund_locktime                   |-> "u16",
      refund_locktime_step              |-> "u16",
      first_connect_attempts            |-> "u32",
      first_connect_sleep_delay_sec     |-> "u64",
      first_connect_attempt_timeout_sec |-> "u64",
      reconnect_attempts                |-> "u32",
      reconnect_short_sleep_delay       |-> "u64",
      reconnect_long_sleep_delay        |-> "u64",
      short_long_sleep_delay_transition |-> "u32",
      reconnect_attempt_timeout_sec     |-> "u64" ]

\* impl Default for TakerConfig.
DefaultConfig ==
    [ refund_locktime                   |-> 48,
      refund_locktime_step              |-> 48,
      first_connect_attempts            |-> 5,
      first_connect_sleep_delay_sec     |-> 1,
      first_connect_attempt_timeout_sec |-> 20,
      reconnect_attempts                |-> 3200,
      reconnect_short_sleep_delay       |-> 10,
      reconnect_long_sleep_delay        |-> 60,
      short_long_sleep_delay_transition |-> 60,
      reconnect_attempt_timeout_sec     |-> 300 ]

(***************************************************************************)
(* Text and numbers.  A raw value is the text written after "key =", a     *)
(* sequence of characters; converting it to a field's type is a decimal    *)
(* parse with a range check against the type's width.                      *)
(***************************************************************************)
DigitChars == {"0", "1", "2", "3", "4", "5", "6", "7", "8", "9"}

DigitVal ==
    ("0" :> 0) @@ ("1" :> 1) @@ ("2" :> 2) @@ ("3" :> 3) @@ ("4" :> 4) @@
    ("5" :> 5) @@ ("6" :> 6) @@ ("7" :> 7) @@ ("8" :> 8) @@ ("9" :> 9)

\* The decimal digits of the largest value of each unsigned type.
MaxDigits ==
    [ u16 |-> <<6, 5, 5, 3, 5>>,
      u32 |-> <<4, 2, 9, 4, 9, 6, 7, 2, 9, 5>>,
      u64 |-> <<1, 8, 4, 4, 6, 7, 4, 4, 0, 7, 3, 7, 0, 9, 5, 5, 1, 6, 1, 5>> ]

RECURSIVE StripZeros(_)
StripZeros(ds) ==
    IF Len(ds) > 1 /\ Head(ds) = 0 THEN StripZeros(Tail(ds)) ELSE ds

\* ds > ms as decimal numbers without leading zeros.
RECURSIVE LexGreater(_, _)
LexGreater(ds, ms) ==
    IF ds = <<>> THEN FALSE
    ELSE IF Head(ds) # Head(ms) THEN Head(ds) > Head(ms)
    ELSE LexGreater(Tail(ds), Tail(ms))

Exceeds(ds, ms) ==
    \/ Len(ds) > Len(ms)
    \/ Len(ds) = Len(ms) /\ LexGreater(ds, ms)

RECURSIVE DigitsValue(_, _)
DigitsValue(ds, acc) ==
    IF ds = <<>> THEN acc ELSE DigitsValue(Tail(ds), 10 * acc + Head(ds))

Ok(v) == [ok |-> TRUE, val |-> v]
Err == [ok |-> FALSE, val |-> 0]

\* <unsigned type>::from_str: decimal digits only, within the type's range.
ParseUInt(text, ty) ==
    IF text = <<>> \/ \E i \in 1..Len(text) : text[i] \notin DigitChars
    THEN Err
    ELSE LET ds == StripZeros([i \in 1..Len(text) |-> DigitVal[text[i]]])
         IN  IF Exceeds(ds, MaxDigits[ty]) THEN Err ELSE Ok(DigitsValue(ds, 0))

(***************************************************************************)
(* Files.  A file is a sequence of lines, each a section header or a       *)
(* "key = value" line.                                                     *)
(***************************************************************************)
Header(name) == [kind |-> "header", key |-> name, val |-> <<>>]
KV(k, v)     == [kind |-> "kv", key |-> k, val |-> v]

\* Option<&value>: None is <<>>, Some(v) is <<v>>.
NoValue == <<>>
Some(v) == <<v>>

EmptyMap == [k \in {} |-> <<>>]

\* HashMap::get
MapGet(m, k) == IF k \in DOMAIN m THEN Some(m[k]) ELSE NoValue

\* utill::parse_toml, the parsing part: section name -> key -> raw value.
RECURSIVE ParseLines(_, _, _)
ParseLines(lines, cur, doc) ==
    IF lines = <<>> THEN doc
    ELSE LET l == Head(lines)
         IN  IF l.kind = "header"
             THEN ParseLines(Tail(lines), l.key,
                             IF l.key \in DOMAIN doc THEN doc
                             ELSE doc @@ (l.key :> EmptyMap))
             ELSE ParseLines(Tail(lines), cur,
                             [doc EXCEPT ![cur] = (l.key :> l.val) @@ doc[cur]])

parse_toml(lines) == ParseLines(lines, "", ("" :> EmptyMap))

\* utill::parse_field: an absent key gives the default, a present one is
\* converted to the type of the default.
parse_field(raw, default, ty) ==
    IF raw = NoValue THEN Ok(default) ELSE ParseUInt(raw[1], ty)

\* Result::unwrap_or
unwrap_or(res, default) == IF res.ok THEN res.val ELSE default

(***************************************************************************)
(* create_default_taker_dirs: the text of the default file.                *)
(***************************************************************************)
\* A default file whose reconnect_attempts line lost a digit.
config_string_typo ==
    << Header("taker_config"),
       KV("refund_locktime", <<"4", "8">>),
       KV("refund_locktime_step", <<"4", "8">>),
       KV("first_connect_attempts", <<"5">>),
       KV("first_connect_sleep_delay_sec", <<"1">>),
       KV("first_connect_attempt_timeout_sec", <<"2", "0">>),
       KV("reconnect_attempts", <<"3", "2", "0">>),
       KV("reconnect_short_sleep_delay", <<"1", "0">>),
       KV("reconnect_long_sleep_delay", <<"6", "0">>),
       KV("short_long_sleep_delay_transition", <<"6", "0">>),
       KV("reconnect_attempt_timeout_sec", <<"3", "0", "0">>) >>

\* let config_string = String::from("[taker_config]\n refund_locktime = 48\n ...")
config_string ==
    << Header("taker_config"),
       KV("refund_locktime", <<"4", "8">>),
       KV("refund_locktime_step", <<"4", "8">>),
       KV("first_connect_attempts", <<"5">>),
       KV("first_connect_sleep_delay_sec", <<"1">>),
       KV("first_connect_attempt_timeout_sec", <<"2", "0">>),
       KV("reconnect_attempts", <<"3", "2", "0", "0">>),
       KV("reconnect_short_sleep_delay", <<"1", "0">>),
       KV("reconnect_long_sleep_delay", <<"6", "0">>),
       KV("short_long_sleep_delay_transition", <<"6", "0">>),
       KV("reconnect_attempt_timeout_sec", <<"3", "0", "0">>) >>

(***************************************************************************)
(* TakerConfig::new, the assembly (lines 75-128).                          *)
(***************************************************************************)
\* section.get("taker_config").cloned().unwrap_or_default()
GetSection(doc) ==
    IF "taker_config" \in DOMAIN doc THEN doc["taker_config"] ELSE EmptyMap

\* parse_field(..).unwrap_or_default(): zero instead of the default.
ResolveOrZero(sec, key, default, ty) ==
    unwrap_or(parse_field(MapGet(sec, key), default, ty), 0)

\* parse_field(taker_config_section.get(key), default).unwrap_or(default)
Resolve(sec, key, default, ty) ==
    unwrap_or(parse_field(MapGet(sec, key), default, ty), default)

\* The struct literal with the key of refund_locktime_step copied from the
\* entry above it.
BuildConfigCopied(sec) ==
    [ refund_locktime |->
        Resolve(sec, "refund_locktime", DefaultConfig.refund_locktime, "u16"),
      refund_locktime_step |->
        Resolve(sec, "refund_locktime", DefaultConfig.refund_locktime_step, "u16"),
      first_connect_attempts |->
        Resolve(sec, "first_connect_attempts",
                DefaultConfig.first_connect_attempts, "u32"),
      first_connect_sleep_delay_sec |->
        Resolve(sec, "first_connect_sleep_delay_sec",
                DefaultConfig.first_connect_sleep_delay_sec, "u64"),
      first_connect_attempt_timeout_sec |->
        Resolve(sec, "first_connect_attempt_timeout_sec",
                DefaultConfig.first_connect_attempt_timeout_sec, "u64"),
      reconnect_attempts |->
        Resolve(sec, "reconnect_attempts", DefaultConfig.reconnect_attempts, "u32"),
      reconnect_short_sleep_delay |->
        Resolve(sec, "reconnect_short_sleep_delay",
                DefaultConfig.reconnect_short_sleep_delay, "u64"),
      reconnect_long_sleep_delay |->
        Resolve(sec, "reconnect_long_sleep_delay",
                DefaultConfig.reconnect_long_sleep_delay, "u64"),
      short_long_sleep_delay_transition |->
        Resolve(sec, "short_long_sleep_delay_transition",
                DefaultConfig.short_long_sleep_delay_transition, "u32"),
      reconnect_attempt_timeout_sec |->
        Resolve(sec, "reconnect_attempt_timeout_sec",
                DefaultConfig.reconnect_attempt_timeout_sec, "u64") ]

\* Self { refund_locktime: parse_field(..).unwrap_or(..), ... }
BuildConfig(sec) ==
    [ refund_locktime |->
        Resolve(sec, "refund_locktime", DefaultConfig.refund_locktime, "u16"),
      refund_locktime_step |->
        Resolve(sec, "refund_locktime_step",
                DefaultConfig.refund_locktime_step, "u16"),
      first_connect_attempts |->
        Resolve(sec, "first_connect_attempts",
                DefaultConfig.first_connect_attempts, "u32"),
      first_connect_sleep_delay_sec |->
        Resolve(sec, "first_connect_sleep_delay_sec",
                DefaultConfig.first_connect_sleep_delay_sec, "u64"),
      first_connect_attempt_timeout_sec |->
        Resolve(sec, "first_connect_attempt_timeout_sec",
                DefaultConfig.first_connect_attempt_timeout_sec, "u64"),
      reconnect_attempts |->
        Resolve(sec, "reconnect_attempts", DefaultConfig.reconnect_attempts, "u32"),
      reconnect_short_sleep_delay |->
        Resolve(sec, "reconnect_short_sleep_delay",
                DefaultConfig.reconnect_short_sleep_delay, "u64"),
      reconnect_long_sleep_delay |->
        Resolve(sec, "reconnect_long_sleep_delay",
                DefaultConfig.reconnect_long_sleep_delay, "u64"),
      short_long_sleep_delay_transition |->
        Resolve(sec, "short_long_sleep_delay_transition",
                DefaultConfig.short_long_sleep_delay_transition, "u32"),
      reconnect_attempt_timeout_sec |->
        Resolve(sec, "reconnect_attempt_timeout_sec",
                DefaultConfig.reconnect_attempt_timeout_sec, "u64") ]

\* What a call returns or how it ends.
NoResult     == [kind |-> "none",  cfg |-> <<>>]
OkResult(c)  == [kind |-> "ok",    cfg |-> c]
IoError      == [kind |-> "ioerr", cfg |-> <<>>]
Panic        == [kind |-> "panic", cfg |-> <<>>]

\* An assembly that gives up with an error when a value does not convert
\* (parse_field(..)? in place of parse_field(..).unwrap_or(..)).
AssembleStrict(doc) ==
    IF \E i \in 1..Len(Fields) :
          ~parse_field(MapGet(GetSection(doc), Fields[i]), 0, FieldType[Fields[i]]).ok
    THEN IoError
    ELSE OkResult(BuildConfig(GetSection(doc)))

\* Lines 75-128: Ok(Self { .. }) built from the taker_config section.
AssembleResult(doc) == OkResult(BuildConfig(GetSection(doc)))

(***************************************************************************)
(* The state: the file system and, per process, one call of                *)
(* TakerConfig::new.                                                       *)
(***************************************************************************)
VARIABLES
    fs,         \* path -> Absent or the lines of the file at that path
    pc,         \* process -> where its call of TakerConfig::new stands
    file_path,  \* process -> the argument of the call (NoPath for None)
    target,     \* process -> the path the call settled on (NoPath before)
    found,      \* process -> what target.exists() returned
    section,    \* process -> the document parse_toml returned
    result,     \* process -> what the call returned, or how it ended
    trace       \* process -> the file operations and log lines of the call

vars == <<fs, pc, file_path, target, found, section, result, trace>>

\* What is at a path: nothing, or a file with its lines.
Absent == [exists |-> FALSE, lines |-> <<>>]
File(lines) == [exists |-> TRUE, lines |-> lines]
NoPath == "none"

\* A path given by the caller, PathBuf::from("taker.toml") and
\* get_config_dir().join("taker.toml").
ExplicitPath  == "custom/taker.toml"
LocalPath     == "taker.toml"
ConfigDirPath == "configdir/taker.toml"

Paths == {ExplicitPath, LocalPath, ConfigDirPath}

Event(op, path) == [op |-> op, path |-> path]

\* Files a user may have written.
OverrideFile ==
    << Header("taker_config"), KV("refund_locktime", <<"4", "9">>) >>
WrongTypeFile ==
    << Header("taker_config"),
       KV("refund_locktime", <<"\"", "n", "a", "n", "\"">>),
       KV("reconnect_attempts", <<"7">>) >>
NoSectionFile ==
    << KV("refund_locktime", <<"4", "9">>),
       Header("maker_config"), KV("reconnect_attempts", <<"7">>) >>
UnknownKeyFile ==
    << Header("taker_config"), KV("unknown_key", <<"1">>),
       KV("reconnect_long_sleep_delay", <<"0", "6", "2">>) >>

UserFiles ==
    { File(l) : l \in {config_string, <<>>, OverrideFile, WrongTypeFile,
                       NoSectionFile, UnknownKeyFile} }

Init ==
    /\ fs = [q \in Paths |-> Absent]
    /\ pc = [p \in Procs |-> "idle"]
    /\ file_path = [p \in Procs |-> NoPath]
    /\ target = [p \in Procs |-> NoPath]
    /\ found = [p \in Procs |-> FALSE]
    /\ section = [p \in Procs |-> <<>>]
    /\ result = [p \in Procs |-> NoResult]
    /\ trace = [p \in Procs |-> <<>>]

Quiescent == \A p \in Procs : pc[p] = "idle"

(***************************************************************************)
(* TakerConfig::new(file_path), one file operation per step.               *)
(***************************************************************************)
\* Line 44-47: entry, and the match on file_path.
Call(p, fp) ==
    /\ pc[p] = "idle"
    /\ pc' = [pc EXCEPT ![p] = IF fp = NoPath THEN "check_local" ELSE "check"]
    /\ file_path' = [file_path EXCEPT ![p] = fp]
    /\ UNCHANGED <<fs, target, found, section, result, trace>>

\* An explicit-path check that writes the default file whether or not the
\* path exists.
CheckExplicitRewrite(p) ==
    /\ pc[p] = "check"
    /\ LET path == file_path[p]
           e    == fs[path].exists
       IN  /\ target' = [target EXCEPT ![p] = path]
           /\ found' = [found EXCEPT ![p] = e]
           /\ pc' = [pc EXCEPT ![p] = "create"]
           /\ trace' = [trace EXCEPT ![p] =
                          @ \o << Event(IF e THEN "exists" ELSE "missing", path),
                                  Event("warn", path) >>]
    /\ UNCHANGED <<fs, file_path, section, result>>

\* Lines 48-54: Some(path): path.exists(), and the warning of the else branch.
CheckExplicit(p) ==
    /\ pc[p] = "check"
    /\ LET path == file_path[p]
           e    == fs[path].exists
       IN  /\ target' = [target EXCEPT ![p] = path]
           /\ found' = [found EXCEPT ![p] = e]
           /\ IF e
              THEN /\ pc' = [pc EXCEPT ![p] = "parse"]
                   /\ trace' = [trace EXCEPT ![p] = Append(@, Event("exists", path))]
              ELSE /\ pc' = [pc EXCEPT ![p] = "create"]
                   /\ trace' = [trace EXCEPT ![p] =
                                  @ \o <<Event("missing", path), Event("warn", path)>>]
    /\ UNCHANGED <<fs, file_path, section, result>>

\* A local check that never takes the working directory's file.
CheckLocalSkipped(p) ==
    /\ pc[p] = "check_local"
    /\ pc' = [pc EXCEPT ![p] = "check_config_dir"]
    /\ trace' = [trace EXCEPT ![p] = Append(@, Event("missing", LocalPath))]
    /\ UNCHANGED <<fs, file_path, target, found, section, result>>

\* Lines 59-62: None: PathBuf::from("taker.toml").exists().
CheckLocal(p) ==
    /\ pc[p] = "check_local"
    /\ IF fs[LocalPath].exists
       THEN /\ target' = [target EXCEPT ![p] = LocalPath]
            /\ found' = [found EXCEPT ![p] = TRUE]
            /\ pc' = [pc EXCEPT ![p] = "parse"]
            /\ trace' = [trace EXCEPT ![p] = Append(@, Event("exists", LocalPath))]
       ELSE /\ pc' = [pc EXCEPT ![p] = "check_config_dir"]
            /\ trace' = [trace EXCEPT ![p] = Append(@, Event("missing", LocalPath))]
            /\ UNCHANGED <<target, found>>
    /\ UNCHANGED <<fs, file_path, section, result>>

\* Lines 63-70: the config directory's taker.toml; when it exists the
\* warning of lines 67-70 follows at once (it prints default_path).
CheckConfigDir(p) ==
    /\ pc[p] = "check_config_dir"
    /\ LET path == ConfigDirPath
           e    == fs[path].exists
       IN  /\ target' = [target EXCEPT ![p] = path]
           /\ found' = [found EXCEPT ![p] = e]
           /\ IF e
              THEN /\ pc' = [pc EXCEPT ![p] = "parse"]
                   /\ trace' = [trace EXCEPT ![p] =
                                  @ \o <<Event("exists", path), Event("warn", LocalPath)>>]
              ELSE /\ pc' = [pc EXCEPT ![p] = "create"]
                   /\ trace' = [trace EXCEPT ![p] = Append(@, Event("missing", path))]
    /\ UNCHANGED <<fs, file_path, section, result>>

\* A file creation that refuses an existing file (create_new).
CreateFileNew(p, ok) ==
    /\ pc[p] = "create"
    /\ IF ok /\ ~fs[target[p]].exists
       THEN /\ fs' = [fs EXCEPT ![target[p]] = File(<<>>)]
            /\ pc' = [pc EXCEPT ![p] = "write"]
            /\ trace' = [trace EXCEPT ![p] = Append(@, Event("create", target[p]))]
            /\ UNCHANGED result
       ELSE /\ result' = [result EXCEPT ![p] = Panic]
            /\ pc' = [pc EXCEPT ![p] = "done"]
            /\ trace' = [trace EXCEPT ![p] = Append(@, Event("fault", target[p]))]
            /\ UNCHANGED fs
    /\ UNCHANGED <<file_path, target, found, section>>

\* Lines 55/65 and 148: create_default_taker_dirs, first half:
\* write_default_config creates the directories and the (empty) file;
\* a failure (ok = FALSE, a "fault" of the file system) is unwrapped.
CreateFile(p, ok) ==
    /\ pc[p] = "create"
    /\ IF ok
       THEN /\ fs' = [fs EXCEPT ![target[p]] = File(<<>>)]
            /\ pc' = [pc EXCEPT ![p] = "write"]
            /\ trace' = [trace EXCEPT ![p] = Append(@, Event("create", target[p]))]
            /\ UNCHANGED result
       ELSE /\ result' = [result EXCEPT ![p] = Panic]
            /\ pc' = [pc EXCEPT ![p] = "done"]
            /\ trace' = [trace EXCEPT ![p] = Append(@, Event("fault", target[p]))]
            /\ UNCHANGED fs
    /\ UNCHANGED <<file_path, target, found, section>>

\* Lines 133-148: create_default_taker_dirs, second half: config_string is
\* written to the file; a failure is unwrapped.  With no explicit path the
\* warning of lines 67-70 follows.
WriteFile(p, ok) ==
    /\ pc[p] = "write"
    /\ IF ok
       THEN /\ fs' = [fs EXCEPT ![target[p]] = File(config_string)]
            /\ pc' = [pc EXCEPT ![p] = "parse"]
            /\ trace' = [trace EXCEPT ![p] =
                           IF file_path[p] = NoPath
                           THEN @ \o <<Event("write", target[p]), Event("warn", LocalPath)>>
                           ELSE Append(@, Event("write", target[p]))]
            /\ UNCHANGED result
       ELSE /\ result' = [result EXCEPT ![p] = Panic]
            /\ pc' = [pc EXCEPT ![p] = "done"]
            /\ trace' = [trace EXCEPT ![p] = Append(@, Event("fault", target[p]))]
            /\ UNCHANGED fs
    /\ UNCHANGED <<file_path, target, found, section>>

\* A read that treats a file without a taker_config section as missing:
\* it writes the default file and reads again.
ParseFileTwice(p, ok) ==
    /\ pc[p] = "parse"
    /\ IF ok /\ fs[target[p]].exists
       THEN /\ section' = [section EXCEPT ![p] = parse_toml(fs[target[p]].lines)]
            /\ pc' = [pc EXCEPT ![p] =
                        IF "taker_config" \in DOMAIN parse_toml(fs[target[p]].lines)
                        THEN "assemble" ELSE "create"]
            /\ trace' = [trace EXCEPT ![p] = Append(@, Event("read", target[p]))]
            /\ UNCHANGED result
       ELSE /\ result' = [result EXCEPT ![p] = IoError]
            /\ pc' = [pc EXCEPT ![p] = "done"]
            /\ trace' = [trace EXCEPT ![p] = Append(@, Event("fault", target[p]))]
            /\ UNCHANGED section
    /\ UNCHANGED <<fs, file_path, target, found>>

\* Lines 49/56/61/71: parse_toml(path)?: the file is read and parsed; a
\* failure to read it (the file system's, or no file there) is returned.
ParseFile(p, ok) ==
    /\ pc[p] = "parse"
    /\ IF ok /\ fs[target[p]].exists
       THEN /\ section' = [section EXCEPT ![p] = parse_toml(fs[target[p]].lines)]
            /\ pc' = [pc EXCEPT ![p] = "assemble"]
            /\ trace' = [trace EXCEPT ![p] = Append(@, Event("read", target[p]))]
            /\ UNCHANGED result
       ELSE /\ result' = [result EXCEPT ![p] = IoError]
            /\ pc' = [pc EXCEPT ![p] = "done"]
            /\ trace' = [trace EXCEPT ![p] =
                           Append(@, Event(IF ok THEN "not_found" ELSE "fault",
                                           target[p]))]
            /\ UNCHANGED section
    /\ UNCHANGED <<fs, file_path, target, found>>

\* Lines 75-128: the section is looked up and the struct is built.
Assemble(p) ==
    /\ pc[p] = "assemble"
    /\ result' = [result EXCEPT ![p] = AssembleResult(section[p])]
    /\ pc' = [pc EXCEPT ![p] = "done"]
    /\ trace' = [trace EXCEPT ![p] = Append(@, Event("assemble", target[p]))]
    /\ UNCHANGED <<fs, file_path, target, found, section>>

\* The caller takes the result; the process may call again.
Return(p) ==
    /\ pc[p] = "done"
    /\ pc' = [pc EXCEPT ![p] = "idle"]
    /\ file_path' = [file_path EXCEPT ![p] = NoPath]
    /\ target' = [target EXCEPT ![p] = NoPath]
    /\ found' = [found EXCEPT ![p] = FALSE]
    /\ section' = [section EXCEPT ![p] = <<>>]
    /\ result' = [result EXCEPT ![p] = NoResult]
    /\ trace' = [trace EXCEPT ![p] = <<>>]
    /\ UNCHANGED fs

\* Between calls a user writes or removes a file (the tests'
\* create_temp_config and remove_temp_config).
EditFile(path, content) ==
    /\ Quiescent
    /\ fs[path] # content
    /\ fs' = [fs EXCEPT ![path] = content]
    /\ UNCHANGED <<pc, file_path, target, found, section, result, trace>>

\* One call at a time, any argument, any file-system outcome.
Next ==
    \/ \E p \in Procs, fp \in Paths \cup {NoPath} : Quiescent /\ Call(p, fp)
    \/ \E p \in Procs : CheckExplicit(p)
    \/ \E p \in Procs : CheckLocal(p)
    \/ \E p \in Procs : CheckConfigDir(p)
    \/ \E p \in Procs, ok \in BOOLEAN : CreateFile(p, ok)
    \/ \E p \in Procs, ok \in BOOLEAN : WriteFile(p, ok)
    \/ \E p \in Procs, ok \in BOOLEAN : ParseFile(p, ok)
    \/ \E p \in Procs : Assemble(p)
    \/ \E p \in Procs : Return(p)
    \/ \E path \in Paths, content \in UserFiles \cup {Absent} : EditFile(path, content)

Spec == Init /\ [][Next]_vars

(***************************************************************************)
(* What a call did, read off its trace.                                    *)
(***************************************************************************)
EventsOf(p, ops) == { i \in 1..Len(trace[p]) : trace[p][i].op \in ops }
Count(p, ops) == Cardinality(EventsOf(p, ops))
Did(p, op, path) == \E i \in EventsOf(p, {op}) : trace[p][i].path = path
Touched(p) ==
    { trace[p][i].path :
        i \in EventsOf(p, {"exists", "missing", "create", "write", "read"}) }
Warned(p) == EventsOf(p, {"warn"}) # {}
Wrote(p) == EventsOf(p, {"create", "write"}) # {}
NoFault(p) == EventsOf(p, {"fault"}) = {}
Done(p) == pc[p] = "done"

\* C4: every file-system failure during a load ends the call by returning
\* an I/O error: a call that ended without success returned Err(io::Error),
\* the failed write of the default file included.
C4_FailureIsReturnedIoError ==
    \A p \in Procs :
        Done(p) /\ ~NoFault(p) => result[p] = IoError

\* C9: the warning is emitted in exactly the calls that write the default
\* file: a call whose target file was found emits none, and a successful
\* call that wrote the default file emitted one.
C9_WarningIffBootstrap ==
    \A p \in Procs :
        Done(p) /\ result[p].kind = "ok" =>
            /\ found[p] => ~Warned(p)
            /\ Wrote(p) => Warned(p)

\* The path a call must settle on: the explicit one, else the working
\* directory's taker.toml when there is one, else the config directory's.
Chosen(p) ==
    IF file_path[p] # NoPath THEN file_path[p]
    ELSE IF fs[LocalPath].exists THEN LocalPath ELSE ConfigDirPath

FileOps(p) ==
    { trace[p][i].path : i \in EventsOf(p, {"create", "write", "read"}) }

C6_Inv ==
    \A p \in Procs :
        /\ file_path[p] # NoPath => Touched(p) \subseteq {file_path[p]}
        /\ target[p] # NoPath =>
              /\ target[p] = Chosen(p)
              /\ FileOps(p) \subseteq {Chosen(p)}
              /\ Chosen(p) # ConfigDirPath => ConfigDirPath \notin Touched(p)
        /\ pc[p] = "assemble" \/ (Done(p) /\ result[p].kind = "ok") =>
              section[p] = parse_toml(fs[Chosen(p)].lines)

C6_Step ==
    ~Quiescent =>
        \A path \in Paths :
            fs'[path] # fs[path] =>
                \E p \in Procs : pc[p] # "idle" /\ path = Chosen(p)

\* C6: the file a load reads (and creates) is the explicit path if one is
\* given, else the working directory's taker.toml if it exists, else the
\* config directory's; no other location is read or written, and with a
\* file in the working directory the config directory is not even probed.
C6_PathOrder == []C6_Inv /\ [][C6_Step]_vars

C6_Witness ==
    \E p \in Procs :
        /\ Done(p) /\ result[p].kind = "ok"
        /\ file_path[p] = NoPath /\ target[p] = LocalPath
        /\ fs[ConfigDirPath].exists
        /\ fs[ConfigDirPath].lines = OverrideFile
        /\ fs[LocalPath].lines = WrongTypeFile

\* C7: with no explicit path, no taker.toml in the working directory and
\* none in the config directory, a load the file system does not fail
\* creates config_dir/taker.toml with the default text, reads it and returns
\* Ok(TakerConfig::default()).
C7_FirstRunSucceeds ==
    \A p \in Procs :
        /\ Done(p) /\ NoFault(p)
        /\ file_path[p] = NoPath
        /\ Did(p, "missing", LocalPath) /\ Did(p, "missing", ConfigDirPath)
        => /\ result[p] = OkResult(DefaultConfig)
           /\ fs[ConfigDirPath] = File(config_string)
           /\ ~fs[LocalPath].exists
           /\ Did(p, "create", ConfigDirPath) /\ Did(p, "write", ConfigDirPath)
           /\ Did(p, "read", ConfigDirPath)

C7_Witness ==
    \E p \in Procs :
        /\ Done(p) /\ NoFault(p) /\ file_path[p] = NoPath
        /\ Did(p, "missing", LocalPath) /\ Did(p, "missing", ConfigDirPath)
        /\ result[p].kind = "ok"

\* The configuration each of the user's files stands for.
ExpectedConfig(lines) ==
    CASE lines = OverrideFile   -> [DefaultConfig EXCEPT !.refund_locktime = 49]
      [] lines = WrongTypeFile  -> [DefaultConfig EXCEPT !.reconnect_attempts = 7]
      [] lines = UnknownKeyFile ->
             [DefaultConfig EXCEPT !.reconnect_long_sleep_delay = 62]
      [] OTHER -> DefaultConfig

C3_Inv ==
    \A p \in Procs :
        /\ Done(p) /\ NoFault(p) /\ target[p] # NoPath /\ ~found[p] =>
              /\ fs[target[p]] = File(config_string)
              /\ result[p] = OkResult(DefaultConfig)
        /\ found[p] => ~Wrote(p)
        /\ Done(p) /\ found[p] /\ NoFault(p) =>
              result[p] = OkResult(ExpectedConfig(fs[target[p]].lines))

C3_Step == \A p \in Procs : found[p] /\ pc[p] # "idle" => fs' = fs

\* C3: a load of a path that does not exist leaves the default text at that
\* path and returns the built-in default; a load of a path that exists
\* writes nothing, leaves the file as it is and returns what the file says.
C3_BootstrapIdempotent == []C3_Inv /\ [][C3_Step]_vars

C3_Witness ==
    \E p \in Procs :
        /\ Done(p) /\ found[p] /\ file_path[p] = ExplicitPath
        /\ fs[ExplicitPath] = File(OverrideFile)
        /\ result[p].kind = "ok" /\ result[p].cfg.refund_locktime = 49

HasTakerSection(lines) ==
    \E i \in 1..Len(lines) : lines[i] = Header("taker_config")

\* C5: whenever the file at the chosen path was read, the call returns Ok
\* with all ten fields set to numbers, whatever the file holds; a file with
\* no taker_config section gives the built-in default.
C5_ContentNeverFails ==
    \A p \in Procs :
        Done(p) /\ EventsOf(p, {"read"}) # {} =>
            /\ result[p].kind = "ok"
            /\ DOMAIN result[p].cfg = FieldNames
            /\ \A f \in FieldNames : result[p].cfg[f] \in Nat
            /\ ~HasTakerSection(fs[target[p]].lines) =>
                  result[p].cfg = DefaultConfig

C5_Witness ==
    \E p \in Procs :
        /\ Done(p) /\ EventsOf(p, {"read"}) # {}
        /\ fs[target[p]].lines = WrongTypeFile
        /\ result[p].kind = "ok"

TargetChecks(p) ==
    { i \in EventsOf(p, {"exists", "missing"}) : trace[p][i].path = target[p] }

Before(p, i, events) == \E j \in 1..(i - 1) : trace[p][j] \in events

\* C10: a call checks the existence of its target once, writes the default
\* file at most once and only after finding the target missing, reads the
\* file at most once and only after the exists/created step, assembles at
\* most once after the read; it ends assembled, or in an I/O failure that
\* happened before the file was parsed.
C10_StateMachine ==
    \A p \in Procs :
        /\ Count(p, {"create"}) <= 1 /\ Count(p, {"write"}) <= 1
        /\ Count(p, {"read"}) <= 1 /\ Count(p, {"assemble"}) <= 1
        /\ target[p] # NoPath => Cardinality(TargetChecks(p)) = 1
        /\ \A i \in EventsOf(p, {"create"}) :
              ~found[p] /\ Before(p, i, {Event("missing", trace[p][i].path)})
        /\ \A i \in EventsOf(p, {"write"}) :
              Before(p, i, {Event("create", trace[p][i].path)})
        /\ \A i \in EventsOf(p, {"read"}) :
              Before(p, i, { Event("exists", trace[p][i].path),
                             Event("write", trace[p][i].path) })
        /\ \A i \in EventsOf(p, {"assemble"}) :
              Before(p, i, {Event("read", trace[p][i].path)})
        /\ Done(p) =>
              \/ /\ result[p].kind = "ok"
                 /\ Count(p, {"read"}) = 1 /\ Count(p, {"assemble"}) = 1
              \/ /\ result[p].kind \in {"ioerr", "panic"}
                 /\ Count(p, {"read"}) = 0
                 /\ EventsOf(p, {"fault", "not_found"}) # {}

C10_Witness ==
    \E p \in Procs :
        /\ Done(p) /\ result[p].kind = "ok"
        /\ Count(p, {"create"}) = 1 /\ Count(p, {"write"}) = 1
        /\ Count(p, {"read"}) = 1 /\ Count(p, {"assemble"}) = 1

(***************************************************************************)
(* Field resolution on its own: one file at the explicit path, drawn from  *)
(* files that set any subset of the ten keys, or that give one key a raw   *)
(* value of every shape beside absent, valid or unconvertible neighbours.  *)
(***************************************************************************)
\* A valid value for every field, different from every default and from
\* every other field's value, as written in a file and as a number.
OverrideText ==
    [ refund_locktime                   |-> <<"4", "9">>,
      refund_locktime_step              |-> <<"5", "0">>,
      first_connect_attempts            |-> <<"6">>,
      first_connect_sleep_delay_sec     |-> <<"2">>,
      first_connect_attempt_timeout_sec |-> <<"2", "1">>,
      reconnect_attempts                |-> <<"3", "2", "0", "1">>,
      reconnect_short_sleep_delay       |-> <<"1", "1">>,
      reconnect_long_sleep_delay        |-> <<"6", "1">>,
      short_long_sleep_delay_transition |-> <<"6", "2">>,
      reconnect_attempt_timeout_sec     |-> <<"3", "0", "1">> ]

OverrideValue ==
    [ refund_locktime                   |-> 49,
      refund_locktime_step              |-> 50,
      first_connect_attempts            |-> 6,
      first_connect_sleep_delay_sec     |-> 2,
      first_connect_attempt_timeout_sec |-> 21,
      reconnect_attempts                |-> 3201,
      reconnect_short_sleep_delay       |-> 11,
      reconnect_long_sleep_delay        |-> 61,
      short_long_sleep_delay_transition |-> 62,
      reconnect_attempt_timeout_sec     |-> 301 ]

AllTypes == {"u16", "u32", "u64"}

RawCase(text, types, value) == [text |-> text, types |-> types, value |-> value]

\* Raw values with the types they convert to and the number they stand for.
RawCases ==
    { RawCase(<<"0">>, AllTypes, 0),
      RawCase(<<"0", "0", "7">>, AllTypes, 7),
      RawCase(<<"6", "5", "5", "3", "5">>, AllTypes, 65535),
      RawCase(<<"6", "5", "5", "3", "6">>, {"u32", "u64"}, 65536),
      RawCase(<<"2", "1", "4", "7", "4", "8", "3", "6", "4", "7">>,
              {"u32", "u64"}, 2147483647),
      RawCase(<<"1", "8", "4", "4", "6", "7", "4", "4", "0", "7",
                "3", "7", "0", "9", "5", "5", "1", "6", "1", "6">>, {}, 0),
      RawCase(<<"\"", "n", "o", "t", "_", "a", "_",
                "n", "u", "m", "b", "e", "r", "\"">>, {}, 0),
      RawCase(<<>>, {}, 0),
      RawCase(<<"-", "1">>, {}, 0),
      RawCase(<<"4", ".", "9">>, {}, 0),
      RawCase(<<"[", "1", "]">>, {}, 0),
      RawCase(<<"x">>, {}, 0) }
    \cup { RawCase(OverrideText[f], AllTypes, OverrideValue[f]) : f \in FieldNames }

\* 2^32 overflows u16 and u32; it is given to fields of those types only.
TwoPow32 == <<"4", "2", "9", "4", "9", "6", "7", "2", "9", "6">>

RawTextsFor(f) ==
    { c.text : c \in RawCases } \cup
    (IF FieldType[f] = "u64" THEN {} ELSE {TwoPow32})

SubsetChoice(S) ==
    [f \in FieldNames |-> IF f \in S THEN Some(OverrideText[f]) ELSE NoValue]

FocusChoice(g, text, others) ==
    [f \in FieldNames |->
        IF f = g THEN Some(text)
        ELSE CASE others = "absent"  -> NoValue
               [] others = "valid"   -> Some(OverrideText[f])
               [] others = "invalid" -> Some(<<"x">>)]

FieldChoices ==
    { SubsetChoice(S) : S \in SUBSET FieldNames } \cup
    UNION { { FocusChoice(g, text, others) :
                text \in RawTextsFor(g), others \in {"absent", "valid", "invalid"} } :
            g \in FieldNames }

RECURSIVE ChoiceLines(_, _)
ChoiceLines(i, choice) ==
    IF i > Len(Fields) THEN <<>>
    ELSE (IF choice[Fields[i]] = NoValue THEN <<>>
          ELSE <<KV(Fields[i], choice[Fields[i]][1])>>)
         \o ChoiceLines(i + 1, choice)

ChoiceFile(choice) == File(<<Header("taker_config")>> \o ChoiceLines(1, choice))

InitFields ==
    /\ \E choice \in FieldChoices :
          fs = [q \in Paths |-> IF q = ExplicitPath THEN ChoiceFile(choice) ELSE Absent]
    /\ pc = [p \in Procs |-> "idle"]
    /\ file_path = [p \in Procs |-> NoPath]
    /\ target = [p \in Procs |-> NoPath]
    /\ found = [p \in Procs |-> FALSE]
    /\ section = [p \in Procs |-> <<>>]
    /\ result = [p \in Procs |-> NoResult]
    /\ trace = [p \in Procs |-> <<>>]

NextFields ==
    \/ \E p \in Procs : Quiescent /\ Call(p, ExplicitPath)
    \/ \E p \in Procs : CheckExplicit(p)
    \/ \E p \in Procs : ParseFile(p, TRUE)
    \/ \E p \in Procs : Assemble(p)
    \/ \E p \in Procs : Return(p)

SpecFields == InitFields /\ [][NextFields]_vars

\* The raw value a file gives a key: Some(text) of its line, or none.
RawInFile(lines, key) ==
    IF \E i \in 1..Len(lines) : lines[i].kind = "kv" /\ lines[i].key = key
    THEN Some(lines[CHOOSE i \in 1..Len(lines) :
                      lines[i].kind = "kv" /\ lines[i].key = key].val)
    ELSE NoValue

Convertible(f, text) ==
    \E c \in RawCases : c.text = text /\ FieldType[f] \in c.types

ConvertedValue(text) == (CHOOSE c \in RawCases : c.text = text).value

\* C1: each field is resolved on its own: key absent -> the default; key
\* present with a raw value that does not convert to the field's type
\* (text, wrong shape, out of the type's range) -> the default, and the call
\* still returns Ok; key present and convertible -> the converted value.
C1_FieldResolution ==
    \A p \in Procs :
        Done(p) =>
            /\ result[p].kind = "ok"
            /\ \A f \in FieldNames :
                  LET raw == RawInFile(fs[ExplicitPath].lines, f)
                  IN  /\ raw = NoValue => result[p].cfg[f] = DefaultConfig[f]
                      /\ raw # NoValue /\ ~Convertible(f, raw[1]) =>
                            result[p].cfg[f] = DefaultConfig[f]
                      /\ raw # NoValue /\ Convertible(f, raw[1]) =>
                            result[p].cfg[f] = ConvertedValue(raw[1])

C1_Witness ==
    \E p \in Procs :
        /\ Done(p) /\ result[p].kind = "ok"
        /\ RawInFile(fs[ExplicitPath].lines, "refund_locktime")
             = Some(<<"6", "5", "5", "3", "6">>)
        /\ RawInFile(fs[ExplicitPath].lines, "reconnect_attempts")
             = Some(OverrideText["reconnect_attempts"])
        /\ result[p].cfg.refund_locktime = 48
        /\ result[p].cfg.reconnect_attempts = 3201

PresentKeys(lines) == { f \in FieldNames : RawInFile(lines, f) # NoValue }

\* C2: when the file sets exactly the keys of a set S to valid values, the
\* result has the file's value in every field of S and the default in every
\* other field; no key's value lands in another field.
C2_SubsetOverride ==
    \A p \in Procs :
        LET lines == fs[ExplicitPath].lines
            S     == PresentKeys(lines)
        IN  Done(p) /\ (\A f \in S : RawInFile(lines, f) = Some(OverrideText[f])) =>
                /\ result[p].kind = "ok"
                /\ \A f \in FieldNames :
                      result[p].cfg[f] =
                          IF f \in S THEN OverrideValue[f] ELSE DefaultConfig[f]

C2_Witness ==
    \E p \in Procs :
        /\ Done(p)
        /\ PresentKeys(fs[ExplicitPath].lines) = {"refund_locktime"}
        /\ result[p] = OkResult([DefaultConfig EXCEPT !.refund_locktime = 49])

(***************************************************************************)
(* Concurrent first runs: the processes call TakerConfig::new at any time, *)
(* with no explicit path or with the same explicit path, on a file system  *)
(* that starts empty and does not fail; their file operations interleave.  *)
(***************************************************************************)
RaceArgs == {NoPath, ExplicitPath}

\* The file operations and the assembly of process p's call.
CallSteps(p) ==
    \/ CheckExplicit(p)
    \/ CheckLocal(p)
    \/ CheckConfigDir(p)
    \/ CreateFile(p, TRUE)
    \/ WriteFile(p, TRUE)
    \/ ParseFile(p, TRUE)
    \/ Assemble(p)

NextRace ==
    \/ \E p \in Procs, fp \in RaceArgs : Call(p, fp)
    \/ \E p \in Procs : CheckExplicit(p)
    \/ \E p \in Procs : CheckLocal(p)
    \/ \E p \in Procs : CheckConfigDir(p)
    \/ \E p \in Procs : CreateFile(p, TRUE)
    \/ \E p \in Procs : WriteFile(p, TRUE)
    \/ \E p \in Procs : ParseFile(p, TRUE)
    \/ \E p \in Procs : Assemble(p)
    \/ \E p \in Procs : Return(p)

SpecRace == Init /\ [][NextRace]_vars

\* How far a call is from its end, by the place it stands at.
Rank(at) ==
    CASE at = "check_local"      -> 7
      [] at = "check"            -> 6
      [] at = "check_config_dir" -> 6
      [] at = "create"           -> 5
      [] at = "write"            -> 4
      [] at = "parse"            -> 3
      [] at = "assemble"         -> 2
      [] at = "done"             -> 1
      [] OTHER                   -> 0

Running(p) == pc[p] \notin {"idle", "done"}

C8_Inv ==
    /\ \A p \in Procs :
          Done(p) =>
              /\ result[p].kind = "ok"
              /\ DOMAIN result[p].cfg = FieldNames
              /\ \A f \in FieldNames : result[p].cfg[f] \in Nat
    /\ \A p \in Procs : Running(p) => ENABLED CallSteps(p)
    /\ \A path \in Paths :
          /\ fs[path].exists
          /\ \A p \in Procs : ~(pc[p] = "write" /\ target[p] = path)
          => fs[path] = File(config_string)

\* A writer's step puts its own text at the path, whatever was there, and
\* every step of a call brings it nearer to its end.
C8_Step ==
    \A p \in Procs :
        /\ pc[p] = "create" /\ pc'[p] = "write" => fs'[target[p]] = File(<<>>)
        /\ pc[p] = "write" /\ pc'[p] = "parse" =>
              fs'[target[p]] = File(config_string)
        /\ Running(p) /\ pc'[p] # pc[p] => Rank(pc'[p]) < Rank(pc[p])

\* C8: first loads racing on the same missing path all terminate (a call
\* under way can always take its next step, whatever the others do, and
\* each step brings it nearer to its end) with Ok and a fully populated
\* configuration; the file is what the last writer put there (a writer
\* that found the path missing writes over a file made in the meantime),
\* and once no write is in progress it is the default text.
C8_ConcurrentFirstRun == []C8_Inv /\ [][C8_Step]_vars

\* Process q wrote the default file, process p, which had found the path
\* missing, truncated it, and q then read the empty file.
C8_Witness ==
    \E p, q \in Procs :
        /\ p # q /\ target[p] = target[q]
        /\ pc[p] = "write" /\ ~found[p]
        /\ Done(q) /\ Did(q, "write", target[q])
        /\ "taker_config" \notin DOMAIN section[q]
        /\ result[q] = OkResult(DefaultConfig)

====
